---- MODULE Spec2Model ----
(***************************************************************************)
(* Guahh Auth widget (src/guahh-auth.js): the session / handshake manager. *)
(* One page, one event loop: every handler runs to completion, so each     *)
(* handler is one action.  The persisted session is the string stored      *)
(* under STORAGE_KEY in localStorage; the popup windows, the interval      *)
(* timers and the message listeners are the browser objects the widget     *)
(* creates.  Subscriber callbacks are opaque observers: the model records  *)
(* each invocation with its arguments and with what getUser() and the      *)
(* tracked popup handle are at that moment.                                *)
(***************************************************************************)
EXTENDS Naturals, Sequences, FiniteSets

----------------------------------------------------------------------------
(* Bounds of the model *)

MaxCallbacks == 2   \* registrations, both registries together
MaxInits == 2       \* calls of init()
MaxShows == 2       \* popup windows opened, and intervals active at a time
MaxReady == 2       \* calls of onReady()
MaxEntries == 4     \* registrations on a page that binds an element

----------------------------------------------------------------------------
(* JavaScript values *)

Null == "<null>"
Undefined == "<undefined>"
SyntaxError == "<SyntaxError>"
NotAFunction == "<not a function>"

\* localStorage.getItem returns null for a key that is not stored
NoItem == "<no item>"

\* no popup handle (authPopup = null); popup instances are 1, 2, ...
NoPopup == 0

Users == {"ada", "bob"}
Services == {"Acme"}
CbIds == {"a", "b"}

AUTH_SUCCESS == "GUAHH_AUTH_SUCCESS"
CachedSession == "Cached Session"
AUTH_PAGE_URL == "guahh-auth-page.html"

\* the options.authPageUrl values init() is called with: absent, or the value
\* the convenience layer passes
DefaultOptions == {Undefined, AUTH_PAGE_URL}

\* the same, and the address of a custom authentication page
Options == DefaultOptions \cup {"custom-auth.html"}

\* the text JSON.stringify gives for a user record
JsonText(u) == "{userId:" \o u \o "}"

\* JSON.stringify(value): no text at all for undefined
JSONstringify(v) ==
    IF v = Undefined THEN Undefined
    ELSE IF v = Null THEN "null"
    ELSE JsonText(v)

\* the string conversion localStorage.setItem applies to its value
ToStorageString(v) ==
    IF v = Undefined THEN "undefined"
    ELSE IF v = Null THEN "null"
    ELSE v

\* JSON.parse(text): the value, or a SyntaxError
JSONparse(s) ==
    IF \E u \in Users : s = JsonText(u)
    THEN CHOOSE u \in Users : s = JsonText(u)
    ELSE IF s = "null" THEN Null
    ELSE SyntaxError

\* truthiness of what getItem returned (null and "" are falsy)
Truthy(s) == s # NoItem /\ s # ""

\* values that may be found under STORAGE_KEY when the page loads
StoredValues ==
    {NoItem, "", "null", "undefined"} \cup {JsonText(u) : u \in Users}

\* the windows a message event can come from (event.source)
Senders == {"popup", "other"}

\* inbound message events (has = FALSE: event.data is missing)
Messages ==
    [has : {FALSE}, type : {""}, user : {Undefined}, service : {Undefined},
     from : {"other"}]
    \cup [has : {TRUE}, type : {"OTHER"}, user : {"ada"}, service : Services,
          from : {"popup"}]
    \cup [has : {TRUE}, type : {AUTH_SUCCESS},
          user : Users, service : Services, from : Senders]
    \cup [has : {TRUE}, type : {AUTH_SUCCESS},
          user : {Null, Undefined}, service : Services, from : {"popup"}]

NoMsg == [has |-> FALSE, type |-> "", user |-> Undefined, service |-> Undefined,
          from |-> "other"]

----------------------------------------------------------------------------
(* State *)

VARIABLES
    storage,      \* localStorage[STORAGE_KEY]: NoItem or a string
    callbacks,    \* [login, logout]: the two registries, in insertion order
    authPopup,    \* the tracked popup handle, NoPopup when null
    listeners,    \* message listeners added to window (one per init() call)
    closed,       \* popup instance -> its .closed flag (domain: opened popups)
    timers,       \* number of active liveness intervals (all run the same closure)
    cleared,      \* the paths that cleared the handle while it tracked the newest popup
    op,           \* the handler that ran last
    arg,          \* the message it was given, when it is the message event
    out,          \* what that handler reported
    calls,        \* callback invocations made by that handler, in order
    authPageUrl,  \* the page address the last init() resolved from its options
    hasGuahhAuth, \* typeof window.GuahhAuth !== 'undefined'
    gate,         \* "scheduled" while a call of initWhenReady is pending
    isReady,      \* the convenience layer's readiness flag
    readyCallbacks, \* the callbacks onReady() queued
    readyCalls,   \* the onReady callbacks invoked so far, in order
    display,      \* style.display of the element given to toggleOnAuth
    toggle        \* how toggleOnAuth bound that element, "unbound" before

vars == <<storage, callbacks, authPopup, listeners, closed, timers, cleared,
          op, arg, out, calls, authPageUrl,
          hasGuahhAuth, gate, isReady, readyCallbacks, readyCalls,
          display, toggle>>

\* the state of the convenience layer
domVars == <<display, toggle>>
apiVars == <<hasGuahhAuth, gate, isReady, readyCallbacks, readyCalls, domVars>>

\* a handler that returns normally and reports nothing
Quiet == [threw |-> FALSE, errors |-> 0, alerts |-> 0, opened |-> Undefined]

----------------------------------------------------------------------------
(* SessionStore *)

\* a getUser that treats unreadable data as no session
getUserOfGuarded(s) ==
    IF Truthy(s) /\ JSONparse(s) # SyntaxError THEN JSONparse(s) ELSE Null

\* GuahhAuth.getUser applied to a stored value
getUserOf(s) == IF Truthy(s) THEN JSONparse(s) ELSE Null

\* GuahhAuthAPI.isLoggedIn() on a stored value getUser() can read
isLoggedIn(s) == getUserOf(s) # Null

\* one invocation of a subscriber, with what it can observe when it runs
Invocation(reg, cb, user, service, s, popup) ==
    [reg |-> reg, cb |-> cb, user |-> user, service |-> service,
     sawUser |-> getUserOf(s), sawPopup |-> popup]

\* a dispatch that walks the registry from its newest entry
forEachReversed(list, reg, user, service, s, popup) ==
    [i \in 1..Len(list) |->
        Invocation(reg, list[Len(list) + 1 - i], user, service, s, popup)]

\* list.forEach(cb => cb(user, service)) on a registry
forEach(list, reg, user, service, s, popup) ==
    [i \in 1..Len(list) |-> Invocation(reg, list[i], user, service, s, popup)]

----------------------------------------------------------------------------
(* The message listener added by init() *)

\* the part of the page state one listener run reads and writes
PageState == [storage |-> storage, authPopup |-> authPopup, closed |-> closed,
              cleared |-> cleared, calls |-> <<>>]

\* a close that leaves the handle pointing at the closed window
closePopupKeepsHandle(st) ==
    IF st.authPopup # NoPopup
    THEN [st EXCEPT !.closed[st.authPopup] = TRUE]
    ELSE st

\* if (authPopup) { authPopup.close(); authPopup = null; }
closePopup(st) ==
    IF st.authPopup # NoPopup
    THEN [st EXCEPT !.closed[st.authPopup] = TRUE,
                    !.cleared = @ \cup {"handshake"},
                    !.authPopup = NoPopup]
    ELSE st

\* a store that keeps a session already persisted
storeUserKeepsFirst(st, user) ==
    IF Truthy(st.storage) THEN st
    ELSE [st EXCEPT !.storage = ToStorageString(JSONstringify(user))]

\* localStorage.setItem(STORAGE_KEY, JSON.stringify(user))
storeUser(st, user) ==
    [st EXCEPT !.storage = ToStorageString(JSONstringify(user))]

\* callbacks.login.forEach(cb => cb(user, service))
fireLogin(st, login, user, service) ==
    [st EXCEPT !.calls = @ \o forEach(login, "login", user, service,
                                      st.storage, st.authPopup)]

\* a filter that only asks for a payload
acceptsAnyType(msg) == msg.has

\* the filter on event.data
accepts(msg) == msg.has /\ msg.type = AUTH_SUCCESS

\* a listener that closes the popup before it notifies the subscribers
messageListenerClosesFirst(st, login, msg) ==
    IF accepts(msg)
    THEN fireLogin(closePopup(storeUser(st, msg.user)), login, msg.user, msg.service)
    ELSE st

\* a listener that only honours a handshake while a popup is tracked
messageListenerNeedsPopup(st, login, msg) ==
    IF accepts(msg) /\ st.authPopup # NoPopup
    THEN closePopup(fireLogin(storeUser(st, msg.user), login, msg.user, msg.service))
    ELSE st

\* one run of the listener on one message event
messageListener(st, login, msg) ==
    IF accepts(msg)
    THEN closePopup(fireLogin(storeUser(st, msg.user), login, msg.user, msg.service))
    ELSE st

\* the event is dispatched to every listener added so far, in order
RECURSIVE dispatchEvent(_, _, _, _)
dispatchEvent(n, st, login, msg) ==
    IF n = 0 THEN st
    ELSE dispatchEvent(n - 1, messageListener(st, login, msg), login, msg)

----------------------------------------------------------------------------
(* Initial state: the scripts are loaded, init() has not run yet *)

CoreInit ==
    /\ storage \in StoredValues
    /\ callbacks = [login |-> <<>>, logout |-> <<>>]
    /\ authPopup = NoPopup
    /\ listeners = 0
    /\ closed = <<>>
    /\ timers = 0
    /\ cleared = {}
    /\ op = "load"
    /\ arg = NoMsg
    /\ out = Quiet
    /\ calls = <<>>
    /\ authPageUrl = Undefined

\* a page that loads guahh-auth.js alone
Init ==
    /\ CoreInit
    /\ hasGuahhAuth = TRUE
    /\ gate = "none"
    /\ isReady = FALSE
    /\ readyCallbacks = <<>>
    /\ readyCalls = <<>>
    /\ display = ""
    /\ toggle = "unbound"

----------------------------------------------------------------------------
(* Operations *)

\* callbacks.login.forEach(cb => cb(user, { serviceName: 'Cached Session' }))
replayCached(login, user) ==
    forEach(login, "login", user, CachedSession, storage, authPopup)

\* const authPageUrl = options.authPageUrl || AUTH_PAGE_URL
resolvePage(options) == IF options # Undefined THEN options ELSE AUTH_PAGE_URL

\* the body of GuahhAuth.init(options)
initBody(options) ==
    /\ listeners < MaxInits
    /\ listeners' = listeners + 1
    /\ authPageUrl' = resolvePage(options)
    /\ IF Truthy(storage)
       THEN IF JSONparse(storage) = SyntaxError
            THEN /\ out' = [Quiet EXCEPT !.threw = TRUE]
                 /\ calls' = <<>>
            ELSE /\ out' = Quiet
                 /\ calls' = replayCached(callbacks.login, JSONparse(storage))
       ELSE /\ out' = Quiet
            /\ calls' = <<>>
    /\ op' = "init"
    /\ arg' = NoMsg
    /\ UNCHANGED <<storage, callbacks, authPopup, closed, timers, cleared>>

\* GuahhAuth.init(options), called by the page itself
init(options) == initBody(options) /\ UNCHANGED apiVars

\* window.open(authUrl, 'GuahhAuth', features): the window of that name when
\* one is open, otherwise a new window or, when the browser blocks it, null
windowOpen(blocked) ==
    IF \E p \in DOMAIN closed : ~closed[p]
    THEN CHOOSE p \in DOMAIN closed : ~closed[p]
    ELSE IF blocked THEN NoPopup
    ELSE Len(closed) + 1

\* a show() that sets the interval before it looks at what open() returned
pollsAlways(popup) == timers + 1

\* the intervals active after show(): setInterval runs only when a window came back
pollsAfterShow(popup) == IF popup # NoPopup THEN timers + 1 ELSE timers

\* const authUrl = `${AUTH_PAGE_URL}?${params}`: the page of the URL show() opens
authUrl(page) == AUTH_PAGE_URL

\* GuahhAuth.show(serviceInfo)
show ==
    \E blocked \in BOOLEAN :
      LET popup == windowOpen(blocked) IN
      /\ authPopup' = popup
      /\ IF popup # NoPopup
         THEN /\ timers < MaxShows
              /\ popup <= MaxShows
              /\ timers' = pollsAfterShow(popup)
              /\ IF popup \in DOMAIN closed
                 THEN UNCHANGED <<closed, cleared>>
                 ELSE closed' = Append(closed, FALSE) /\ cleared' = {}
              /\ out' = [Quiet EXCEPT !.opened = authUrl(authPageUrl)]
         ELSE /\ UNCHANGED <<closed, cleared>>
              /\ timers' = pollsAfterShow(popup)
              /\ out' = [Quiet EXCEPT !.errors = 1, !.alerts = 1,
                                      !.opened = authUrl(authPageUrl)]
      /\ op' = "show"
      /\ arg' = NoMsg
      /\ calls' = <<>>
      /\ UNCHANGED <<storage, callbacks, listeners, authPageUrl, apiVars>>

\* a tick that cancels its interval but leaves the handle on the closed window
pollTimerKeepsHandle ==
    /\ timers > 0
    /\ IF authPopup # NoPopup /\ closed[authPopup]
       THEN /\ timers' = timers - 1
            /\ UNCHANGED <<cleared, authPopup>>
       ELSE UNCHANGED <<timers, cleared, authPopup>>
    /\ op' = "tick"
    /\ arg' = NoMsg
    /\ out' = Quiet
    /\ calls' = <<>>
    /\ UNCHANGED <<storage, callbacks, listeners, closed, authPageUrl, apiVars>>

\* a tick that treats a popup closed by hand as a logout
pollTimerLogsOut ==
    /\ timers > 0
    /\ IF authPopup # NoPopup /\ closed[authPopup]
       THEN /\ timers' = timers - 1
            /\ cleared' = cleared \cup {"poll"}
            /\ authPopup' = NoPopup
            /\ storage' = NoItem
       ELSE UNCHANGED <<timers, cleared, authPopup, storage>>
    /\ op' = "tick"
    /\ arg' = NoMsg
    /\ out' = Quiet
    /\ calls' = <<>>
    /\ UNCHANGED <<callbacks, listeners, closed, authPageUrl, apiVars>>

\* one tick of one of the intervals set by show()
pollTimer ==
    /\ timers > 0
    /\ IF authPopup # NoPopup /\ closed[authPopup]
       THEN /\ timers' = timers - 1
            /\ cleared' = cleared \cup {"poll"}
            /\ authPopup' = NoPopup
       ELSE UNCHANGED <<timers, cleared, authPopup>>
    /\ op' = "tick"
    /\ arg' = NoMsg
    /\ out' = Quiet
    /\ calls' = <<>>
    /\ UNCHANGED <<storage, callbacks, listeners, closed, authPageUrl, apiVars>>

\* the user (or the authentication page itself) closes popup window p
userCloses(p) ==
    /\ p \in DOMAIN closed
    /\ ~closed[p]
    /\ closed' = [closed EXCEPT ![p] = TRUE]
    /\ op' = "close"
    /\ arg' = NoMsg
    /\ out' = Quiet
    /\ calls' = <<>>
    /\ UNCHANGED <<storage, callbacks, authPopup, listeners, timers, cleared, authPageUrl, apiVars>>

\* a message event arrives at the window
message(msg) ==
    LET st == dispatchEvent(listeners, PageState, callbacks.login, msg) IN
    /\ storage' = st.storage
    /\ authPopup' = st.authPopup
    /\ closed' = st.closed
    /\ cleared' = st.cleared
    /\ calls' = st.calls
    /\ op' = "message"
    /\ arg' = msg
    /\ out' = Quiet
    /\ UNCHANGED <<callbacks, listeners, timers, authPageUrl, apiVars>>

\* GuahhAuth.getUser()
getUser ==
    /\ op' = "getUser"
    /\ arg' = NoMsg
    /\ out' = [Quiet EXCEPT !.threw = (getUserOf(storage) = SyntaxError)]
    /\ calls' = <<>>
    /\ UNCHANGED <<storage, callbacks, authPopup, listeners, closed, timers, cleared, authPageUrl, apiVars>>

\* a logout dispatch that runs before the session is removed
fireLogoutBeforeClear(list, user) ==
    forEach(list, "logout", user, Undefined, storage, authPopup)

\* callbacks.logout.forEach(cb => cb(user)), run after removeItem
fireLogout(list, user) ==
    forEach(list, "logout", user, Undefined, NoItem, authPopup)

\* GuahhAuth.logout()
logout ==
    /\ IF getUserOf(storage) = SyntaxError
       THEN /\ out' = [Quiet EXCEPT !.threw = TRUE]
            /\ calls' = <<>>
            /\ UNCHANGED storage
       ELSE /\ storage' = NoItem
            /\ out' = Quiet
            /\ calls' = fireLogout(callbacks.logout, getUserOf(storage))
    /\ op' = "logout"
    /\ arg' = NoMsg
    /\ UNCHANGED <<callbacks, authPopup, listeners, closed, timers, cleared, authPageUrl, apiVars>>

\* entries held by the two registries
Registered == Len(callbacks.login) + Len(callbacks.logout)

\* a registration that replays the cached session to the new callback at once
onLoginReplays(cb) ==
    /\ Registered < MaxCallbacks
    /\ IF cb # NotAFunction
       THEN /\ callbacks' = [callbacks EXCEPT !.login = Append(@, cb)]
            /\ calls' = IF \E u \in Users : storage = JsonText(u)
                        THEN replayCached(<<cb>>, JSONparse(storage))
                        ELSE <<>>
       ELSE UNCHANGED callbacks /\ calls' = <<>>
    /\ op' = "onLogin"
    /\ arg' = NoMsg
    /\ out' = Quiet
    /\ UNCHANGED <<storage, authPopup, listeners, closed, timers, cleared, authPageUrl, apiVars>>

\* GuahhAuth.onLogin(callback)
onLogin(cb) ==
    /\ Registered < MaxCallbacks
    /\ IF cb # NotAFunction
       THEN callbacks' = [callbacks EXCEPT !.login = Append(@, cb)]
       ELSE UNCHANGED callbacks
    /\ op' = "onLogin"
    /\ arg' = NoMsg
    /\ out' = Quiet
    /\ calls' = <<>>
    /\ UNCHANGED <<storage, authPopup, listeners, closed, timers, cleared, authPageUrl, apiVars>>

\* GuahhAuth.onLogout(callback)
onLogout(cb) ==
    /\ Registered < MaxCallbacks
    /\ IF cb # NotAFunction
       THEN callbacks' = [callbacks EXCEPT !.logout = Append(@, cb)]
       ELSE UNCHANGED callbacks
    /\ op' = "onLogout"
    /\ arg' = NoMsg
    /\ out' = Quiet
    /\ calls' = <<>>
    /\ UNCHANGED <<storage, authPopup, listeners, closed, timers, cleared, authPageUrl, apiVars>>

\* every operation but init()
Operate ==
    \/ show
    \/ pollTimer
    \/ \E p \in 1..MaxShows : userCloses(p)
    \/ \E msg \in Messages : message(msg)
    \/ getUser
    \/ logout
    \/ \E cb \in CbIds \cup {NotAFunction} : onLogin(cb)
    \/ \E cb \in CbIds \cup {NotAFunction} : onLogout(cb)

\* the page as the repository uses it: init() gets no page or the default one
Next ==
    \/ \E options \in DefaultOptions : init(options)
    \/ Operate

Spec == Init /\ [][Next]_vars

\* a page that starts with no session or with a session a login left
InitValid == Init /\ (storage = NoItem \/ \E u \in Users : storage = JsonText(u))

SpecValid == InitValid /\ [][Next]_vars

\* setInterval keeps firing: an interval that is set goes on ticking
FairSpec == Spec /\ WF_vars(pollTimer)

----------------------------------------------------------------------------
(* The readiness gate of guahh-auth-api.js *)

\* a page that loads guahh-auth-api.js: the gate's first run is pending, the
\* core script is loaded already or is still to come
InitGate ==
    /\ CoreInit
    /\ hasGuahhAuth \in BOOLEAN
    /\ gate = "scheduled"
    /\ isReady = FALSE
    /\ readyCallbacks = <<>>
    /\ readyCalls = <<>>
    /\ display = ""
    /\ toggle = "unbound"

\* one invocation of an onReady callback, with the number of init() calls made before it
ReadyCall(cb, n) == [cb |-> cb, inits |-> n]

\* isReady = true; ...; readyCallbacks.forEach(cb => cb()); readyCallbacks = []
\* where an exception of init() leaves the two last statements undone
readyCallbacksForEach ==
    /\ isReady' = TRUE
    /\ IF out'.threw
       THEN UNCHANGED <<readyCallbacks, readyCalls>>
       ELSE /\ readyCalls' = readyCalls \o
                    [i \in 1..Len(readyCallbacks) |->
                        ReadyCall(readyCallbacks[i], listeners + 1)]
            /\ readyCallbacks' = <<>>

\* the guahh-auth.js script is evaluated: window.GuahhAuth is defined
scriptLoads ==
    /\ ~hasGuahhAuth
    /\ hasGuahhAuth' = TRUE
    /\ op' = "script"
    /\ arg' = NoMsg
    /\ out' = Quiet
    /\ calls' = <<>>
    /\ UNCHANGED <<storage, callbacks, authPopup, listeners, closed, timers,
                   cleared, authPageUrl, gate, isReady, readyCallbacks, readyCalls,
                   domVars>>

\* initWhenReady(): on DOMContentLoaded (or at once), then every 50 ms until
\* the core is there
initWhenReady ==
    /\ gate = "scheduled"
    /\ IF hasGuahhAuth
       THEN /\ initBody(AUTH_PAGE_URL)
            /\ readyCallbacksForEach
            /\ gate' = "done"
            /\ UNCHANGED <<hasGuahhAuth, domVars>>
       ELSE UNCHANGED vars

\* GuahhAuthAPI.onReady(callback)
onReady(cb) ==
    /\ Len(readyCallbacks) + Len(readyCalls) < MaxReady
    /\ IF isReady
       THEN /\ readyCalls' = Append(readyCalls, ReadyCall(cb, listeners))
            /\ UNCHANGED readyCallbacks
       ELSE /\ readyCallbacks' = Append(readyCallbacks, cb)
            /\ UNCHANGED readyCalls
    /\ op' = "onReady"
    /\ arg' = NoMsg
    /\ out' = Quiet
    /\ calls' = <<>>
    /\ UNCHANGED <<storage, callbacks, authPopup, listeners, closed, timers,
                   cleared, authPageUrl, hasGuahhAuth, gate, isReady, domVars>>

\* the page with the convenience layer: the gate, and the session changing
\* under it once the core is loaded
NextGate ==
    \/ scriptLoads
    \/ initWhenReady
    \/ \E cb \in CbIds : onReady(cb)
    \/ \E cb \in CbIds : hasGuahhAuth /\ onLogin(cb)
    \/ \E msg \in Messages : hasGuahhAuth /\ message(msg)
    \/ hasGuahhAuth /\ logout

SpecGate == InitGate /\ [][NextGate]_vars

----------------------------------------------------------------------------
(* toggleOnAuth of guahh-auth-api.js, on a page whose callbacks act *)

\* the callbacks of such a page: the closure toggleOnAuth registers, a login
\* callback that calls GuahhAuth.logout(), a callback that registers another
UpdateVisibility == "updateVisibility"
LogsOut == "logsOut"
Registers == "registers"

\* the messages the popup of this page posts
PopupMessages == {msg \in Messages : msg.from = "popup" /\ msg.user # "bob"}

\* a page that loads both scripts and holds the element in either state
InitToggle ==
    /\ CoreInit
    /\ hasGuahhAuth = TRUE
    /\ gate = "none"
    /\ isReady = FALSE
    /\ readyCallbacks = <<>>
    /\ readyCalls = <<>>
    /\ display \in {"", "none"}
    /\ toggle = "unbound"

\* what a running dispatch reads and writes
Page == [storage |-> storage, login |-> callbacks.login, logout |-> callbacks.logout,
         display |-> display, calls |-> <<>>, threw |-> FALSE]

\* element.style.display = (isLoggedIn === showWhenLoggedIn) ? '' : 'none'
displayFor(s, flag) == IF isLoggedIn(s) = (flag = "whenLoggedIn") THEN "" ELSE "none"

\* updateVisibility(): this.isLoggedIn() throws what getUser() throws
updateVisibility(pg, flag) ==
    IF getUserOf(pg.storage) = SyntaxError
    THEN [pg EXCEPT !.threw = TRUE]
    ELSE [pg EXCEPT !.display = displayFor(pg.storage, flag)]

\* the invocation is recorded, then the callback runs
called(pg, reg, cb, user, service) ==
    [pg EXCEPT !.calls = Append(@, Invocation(reg, cb, user, service, pg.storage, authPopup))]

\* cb(user) for one entry of the logout registry
invokeLogout(pg, cb, user) ==
    LET seen == called(pg, "logout", cb, user, Undefined) IN
    CASE cb = UpdateVisibility -> updateVisibility(seen, toggle')
      [] cb = Registers -> [seen EXCEPT !.login = Append(@, "a")]
      [] OTHER -> seen

\* callbacks.logout.forEach(cb => cb(user)), from entry i on: an exception ends it
RECURSIVE forEachLogout(_, _, _, _)
forEachLogout(pg, list, i, user) ==
    IF i > Len(list) \/ pg.threw THEN pg
    ELSE forEachLogout(invokeLogout(pg, list[i], user), list, i + 1, user)

\* GuahhAuth.logout() called while a dispatch is running, or by the page
logoutOn(pg) ==
    IF getUserOf(pg.storage) = SyntaxError
    THEN [pg EXCEPT !.threw = TRUE]
    ELSE forEachLogout([pg EXCEPT !.storage = NoItem], pg.logout, 1,
                       getUserOf(pg.storage))

\* cb(user, service) for one entry of the login registry
invokeLogin(pg, cb, user, service) ==
    LET seen == called(pg, "login", cb, user, service) IN
    CASE cb = UpdateVisibility -> updateVisibility(seen, toggle')
      [] cb = Registers -> [seen EXCEPT !.login = Append(@, "a")]
      [] cb = LogsOut -> logoutOn(seen)
      [] OTHER -> seen

\* callbacks.login.forEach(cb => cb(user, service)), from entry i on
RECURSIVE forEachLogin(_, _, _, _, _)
forEachLogin(pg, list, i, user, service) ==
    IF i > Len(list) \/ pg.threw THEN pg
    ELSE forEachLogin(invokeLogin(pg, list[i], user, service), list, i + 1,
                      user, service)

\* one run of the message listener; no popup is open on this page
listenerOn(pg, msg) ==
    IF accepts(msg)
    THEN LET stored == [pg EXCEPT !.storage = ToStorageString(JSONstringify(msg.user))]
         IN forEachLogin(stored, stored.login, 1, msg.user, msg.service)
    ELSE pg

\* the event goes to every listener; an exception in one does not stop the next
RECURSIVE dispatchOn(_, _, _)
dispatchOn(n, pg, msg) ==
    IF n = 0 THEN pg
    ELSE LET ran == listenerOn([pg EXCEPT !.threw = FALSE], msg)
         IN dispatchOn(n - 1, [ran EXCEPT !.threw = pg.threw \/ ran.threw], msg)

\* the page takes over what the dispatch left
becomes(left) ==
    \E pg \in {left} :
      /\ Len(pg.login) + Len(pg.logout) <= MaxEntries
      /\ storage' = pg.storage
      /\ callbacks' = [login |-> pg.login, logout |-> pg.logout]
      /\ display' = pg.display
      /\ calls' = pg.calls
      /\ out' = [Quiet EXCEPT !.threw = pg.threw]

\* the frame of the operations of this page
pageFrame ==
    UNCHANGED <<authPopup, closed, timers, cleared, hasGuahhAuth, gate, isReady,
                readyCallbacks, readyCalls>>

\* GuahhAuthAPI.toggleOnAuth(elementId, showWhenLoggedIn), once per page
toggleOnAuth(found, flag) ==
    /\ toggle = "unbound"
    /\ Registered + 2 <= MaxEntries
    /\ IF ~found
       THEN /\ out' = [Quiet EXCEPT !.errors = 1]
            /\ UNCHANGED <<callbacks, display, toggle>>
       ELSE IF getUserOf(storage) = SyntaxError
       THEN /\ out' = [Quiet EXCEPT !.threw = TRUE]
            /\ UNCHANGED <<callbacks, display, toggle>>
       ELSE /\ out' = Quiet
            /\ display' = displayFor(storage, flag)
            /\ callbacks' = [login |-> Append(callbacks.login, UpdateVisibility),
                             logout |-> Append(callbacks.logout, UpdateVisibility)]
            /\ toggle' = flag
    /\ op' = "toggleOnAuth"
    /\ arg' = NoMsg
    /\ calls' = <<>>
    /\ UNCHANGED <<storage, listeners, authPageUrl>>
    /\ pageFrame

\* GuahhAuth.init(options) with the callbacks of this page
initOn(options) ==
    /\ listeners < MaxInits
    /\ listeners' = listeners + 1
    /\ authPageUrl' = resolvePage(options)
    /\ UNCHANGED toggle
    /\ IF Truthy(storage) /\ JSONparse(storage) = SyntaxError
       THEN becomes([Page EXCEPT !.threw = TRUE])
       ELSE IF Truthy(storage)
       THEN becomes(forEachLogin(Page, callbacks.login, 1, JSONparse(storage),
                                 CachedSession))
       ELSE becomes(Page)
    /\ op' = "init"
    /\ arg' = NoMsg
    /\ pageFrame

\* a message event arrives at this page
messageOn(msg) ==
    /\ UNCHANGED toggle
    /\ becomes(dispatchOn(listeners, Page, msg))
    /\ op' = "message"
    /\ arg' = msg
    /\ UNCHANGED <<listeners, authPageUrl>>
    /\ pageFrame

\* GuahhAuthAPI.logout(callback): callback is Undefined when none is passed
apiLogout(callback) ==
    /\ UNCHANGED toggle
    /\ becomes(logoutOn(IF callback # Undefined
                        THEN [Page EXCEPT !.logout = Append(@, callback)]
                        ELSE Page))
    /\ op' = "logout"
    /\ arg' = NoMsg
    /\ UNCHANGED <<listeners, authPageUrl>>
    /\ pageFrame

\* GuahhAuthAPI.onLogin(handler) with a handler that acts
apiOnLogin(handler) ==
    /\ Registered < MaxEntries
    /\ callbacks' = [callbacks EXCEPT !.login = Append(@, handler)]
    /\ op' = "onLogin"
    /\ arg' = NoMsg
    /\ out' = Quiet
    /\ calls' = <<>>
    /\ UNCHANGED <<storage, listeners, authPageUrl, domVars>>
    /\ pageFrame

\* GuahhAuthAPI.onLogout(handler) with a handler that acts
apiOnLogout(handler) ==
    /\ Registered < MaxEntries
    /\ callbacks' = [callbacks EXCEPT !.logout = Append(@, handler)]
    /\ op' = "onLogout"
    /\ arg' = NoMsg
    /\ out' = Quiet
    /\ calls' = <<>>
    /\ UNCHANGED <<storage, listeners, authPageUrl, domVars>>
    /\ pageFrame

NextToggle ==
    \/ \E found \in BOOLEAN, flag \in {"whenLoggedIn", "whenLoggedOut"} :
          toggleOnAuth(found, flag)
    \/ \E options \in DefaultOptions : initOn(options)
    \/ \E msg \in PopupMessages : messageOn(msg)
    \/ \E callback \in {Undefined, "a"} : apiLogout(callback)
    \/ \E handler \in {"a", LogsOut, Registers} : apiOnLogin(handler)
    \/ \E handler \in {"a", Registers} : apiOnLogout(handler)

SpecToggle == InitToggle /\ [][NextToggle]_vars

\* the page of an integrator who passes a custom authPageUrl to init()
NextAnyPage ==
    \/ \E options \in Options : init(options)
    \/ Operate

SpecAnyPage == Init /\ [][NextAnyPage]_vars

----------------------------------------------------------------------------
(* Properties *)

\* the message event was a handshake success and a listener received it
Handshake == op = "message" /\ accepts(arg) /\ listeners >= 1

\* the session read by getUser() is a user record, or nothing is stored
Readable(s) == s = NoItem \/ \E u \in Users : s = JsonText(u)

\* C1: once init() has run, a handshake success carrying a well-formed user u
\* leaves getUser() = u, a logout() leaves getUser() = null, and no other
\* handler touches the session: what getUser() returns is decided by which of
\* the two arrived last, so a handshake arriving after a logout() logs in again.
C1_ArrivalOrder ==
    [][ /\ (Handshake' /\ arg'.user \in Users) => getUserOf(storage') = arg'.user
        /\ (op' = "logout" /\ ~out'.threw) => getUserOf(storage') = Null
        /\ (~Handshake' /\ op' # "logout") => storage' = storage ]_vars

C1_Witness ==
    /\ Handshake /\ arg.user = "bob" /\ getUserOf(storage) = "bob"
    /\ \E i \in DOMAIN calls : calls[i].user = "bob" /\ calls[i].sawUser = "bob"

\* C2: logout() from a readable session s (a user u, or none) leaves the
\* session absent and invokes every logout callback once, in registration
\* order, with s as argument, the session being already cleared at each call.
C2_LogoutClears ==
    [][ (op' = "logout" /\ Readable(storage)) =>
          /\ storage' = NoItem
          /\ getUserOf(storage') = Null
          /\ Len(calls') = Len(callbacks.logout)
          /\ \A i \in DOMAIN calls' :
                /\ calls'[i].reg = "logout"
                /\ calls'[i].cb = callbacks.logout[i]
                /\ calls'[i].user = (IF storage = NoItem THEN Null
                                     ELSE CHOOSE u \in Users : storage = JsonText(u))
                /\ calls'[i].sawUser = Null ]_vars

C2_Witness ==
    /\ op = "logout" /\ storage = NoItem
    /\ Len(calls) = 2 /\ calls[1].cb = "a" /\ calls[2].cb = "b"
    /\ calls[1].user = "ada" /\ calls[2].user = "ada"

\* C3: processing one handshake success invokes the login callbacks
\* registered before it, c1..cn, in exactly that order, none skipped, all
\* with the (user, service) pair of the message.
C3_LoginFifo ==
    Handshake =>
        /\ Len(calls) = Len(callbacks.login)
        /\ \A j \in DOMAIN calls :
              /\ calls[j].reg = "login"
              /\ calls[j].cb = callbacks.login[j]
              /\ calls[j].user = arg.user
              /\ calls[j].service = arg.service

\* what does hold: each of the listeners added by the init() calls runs the
\* registry once, in registration order, with the pair of the message
PerListenerFifo ==
    Handshake =>
        LET n == Len(callbacks.login) IN
        /\ Len(calls) = listeners * n
        /\ \A j \in DOMAIN calls :
              /\ calls[j].reg = "login"
              /\ calls[j].cb = callbacks.login[((j - 1) % n) + 1]
              /\ calls[j].user = arg.user
              /\ calls[j].service = arg.service

\* C4: an init() that finds a session persisted invokes every login callback
\* registered before it, in registration order, with (cachedUser,
\* "Cached Session"); an init() that finds nothing persisted invokes none;
\* and no replay call is made outside init(), so a callback registered after
\* an init() has completed never receives the replay of that init().
C4_ReplayOrdering ==
    /\ op = "init" =>
          /\ \A u \in Users : storage = JsonText(u) =>
                /\ Len(calls) = Len(callbacks.login)
                /\ \A i \in DOMAIN calls :
                      /\ calls[i].reg = "login"
                      /\ calls[i].cb = callbacks.login[i]
                      /\ calls[i].user = u
                      /\ calls[i].service = CachedSession
          /\ storage = "null" =>
                /\ Len(calls) = Len(callbacks.login)
                /\ \A i \in DOMAIN calls :
                      /\ calls[i].cb = callbacks.login[i]
                      /\ calls[i].user = Null
                      /\ calls[i].service = CachedSession
          /\ (storage = NoItem \/ storage = "") => calls = <<>>
    /\ op # "init" => \A i \in DOMAIN calls : calls[i].service # CachedSession

C4_Witness ==
    /\ op = "init" /\ storage = JsonText("ada")
    /\ callbacks.login = <<"a", "b">>
    /\ Len(calls) = 2 /\ calls[1].cb = "a" /\ calls[2].cb = "b"
    /\ calls[1].service = CachedSession

\* C5: after a handshake success is processed the tracked handle is null and
\* every popup opened by show() is closed; a poll tick that finds the handle
\* null changes nothing, and only show() makes the handle non-null again;
\* the handle tracking a popup instance is cleared by at most one of the two
\* paths (handshake closure, manual-closure poll), and a cleared instance is
\* never tracked again.
C5_PopupExclusive ==
    [][ /\ Handshake' =>
              /\ authPopup' = NoPopup
              /\ \A p \in DOMAIN closed' : closed'[p]
        /\ (op' = "tick" /\ authPopup = NoPopup) =>
              UNCHANGED <<storage, callbacks, authPopup, closed, timers, cleared>>
        /\ (authPopup = NoPopup /\ authPopup' # NoPopup) => op' = "show"
        /\ Cardinality(cleared') <= 1
        /\ authPopup' \in {NoPopup, Len(closed')}
        /\ cleared' # {} => authPopup' = NoPopup ]_vars

C5_Witness ==
    /\ op = "tick" /\ cleared = {"handshake"} /\ authPopup = NoPopup
    /\ timers >= 1 /\ closed = <<TRUE>>

\* C6: a message event whose payload is missing or whose type is not
\* "GUAHH_AUTH_SUCCESS" leaves the session, both registries and the popup
\* handle (and the popup windows) as they were and invokes no callback.
C6_IgnoredMessage ==
    [][ (op' = "message" /\ ~(arg'.has /\ arg'.type = AUTH_SUCCESS)) =>
          /\ UNCHANGED <<storage, callbacks, authPopup, closed, timers>>
          /\ calls' = <<>> ]_vars

C6_Witness ==
    /\ op = "message" /\ arg.has /\ arg.type = "OTHER" /\ arg.user = "ada"
    /\ listeners >= 1 /\ storage = JsonText("bob")
    /\ Len(callbacks.login) >= 1 /\ authPopup # NoPopup /\ calls = <<>>

\* C7: processing one handshake success persists the user, then dispatches
\* the login callbacks, then closes the popup and clears the handle: every
\* login callback observes getUser() equal to the user of the message and
\* the handle as it was before the message, and the handle is null at the end.
C7_StepOrder ==
    [][ (Handshake' /\ arg'.user \in Users) =>
          /\ \A i \in DOMAIN calls' :
                /\ calls'[i].sawUser = arg'.user
                /\ calls'[i].sawPopup = authPopup
          /\ getUserOf(storage') = arg'.user
          /\ authPopup' = NoPopup ]_vars

\* what does hold: the callbacks run by the first listener observe the handle
\* as it was, those run by a further listener observe it already cleared
PerListenerStepOrder ==
    [][ (Handshake' /\ arg'.user \in Users) =>
          /\ \A i \in DOMAIN calls' :
                /\ calls'[i].sawUser = arg'.user
                /\ calls'[i].sawPopup =
                      (IF i <= Len(callbacks.login) THEN authPopup ELSE NoPopup)
          /\ getUserOf(storage') = arg'.user
          /\ authPopup' = NoPopup ]_vars

\* C8: however many times init() was called, one handshake success invokes
\* each registered login callback exactly once.
C8_SingleReceiver ==
    Handshake =>
        /\ Len(calls) = Len(callbacks.login)
        /\ \A i \in DOMAIN calls : calls[i].cb = callbacks.login[i]

\* C9: a show() whose open request returns no window reports the error once
\* on the console and once by alert, starts no interval, opens no window,
\* and leaves the session and both registries as they were.
C9_PopupBlocked ==
    [][ (op' = "show" /\ authPopup' = NoPopup) =>
          /\ out'.errors = 1 /\ out'.alerts = 1 /\ ~out'.threw
          /\ calls' = <<>>
          /\ UNCHANGED <<timers, closed, storage, callbacks, listeners>> ]_vars

C9_Witness ==
    /\ op = "show" /\ authPopup = NoPopup /\ out.errors = 1 /\ out.alerts = 1
    /\ timers = 1 /\ closed = <<TRUE>> /\ Len(callbacks.login) >= 1
    /\ storage = JsonText("ada")

\* the stored value is there and is not serialized data
NotSerialized(s) == s # NoItem /\ s # "null" /\ \A u \in Users : s # JsonText(u)

\* C10 as stated: whenever the persisted value is present but is not valid
\* serialized data, getUser(), init() and logout() each end in a parse error,
\* leave the persisted value as it was and dispatch no callback.
C10_ParseErrorWhenPresent ==
    [][ (NotSerialized(storage) /\ op' \in {"getUser", "init", "logout"}) =>
          /\ out'.threw
          /\ storage' = storage
          /\ calls' = <<>> ]_vars

\* C10, amended: when the persisted value is a non-empty string that is not
\* valid serialized data, getUser(), init() and logout() each end in a parse
\* error, leave the persisted value as it was and dispatch no callback; an
\* empty string is read as no session (no parse, no error).
C10_ParseError ==
    [][ /\ (NotSerialized(storage) /\ storage # ""
             /\ op' \in {"getUser", "init", "logout"}) =>
              /\ out'.threw
              /\ storage' = storage
              /\ calls' = <<>>
        /\ (storage = "" /\ op' \in {"getUser", "init", "logout"}) =>
              /\ ~out'.threw
              /\ op' = "init" => calls' = <<>>
              /\ op' = "logout" => storage' = NoItem ]_vars

C10_Witness ==
    /\ op = "logout" /\ out.threw /\ storage = "undefined"
    /\ Len(callbacks.logout) >= 1 /\ Len(callbacks.login) >= 1 /\ listeners >= 1

----------------------------------------------------------------------------
(* C11 *)

\* the login invocations a handshake makes, as the registry, the number of
\* listeners and the payload alone determine them
HandshakeCalls(login, n, user, service) ==
    [i \in 1..(n * Len(login)) |->
        [cb |-> login[((i - 1) % Len(login)) + 1], user |-> user, service |-> service]]

\* what the subscribers were called with, without what they could observe
CallArgs(cs) ==
    [i \in 1..Len(cs) |-> [cb |-> cs[i].cb, user |-> cs[i].user, service |-> cs[i].service]]

\* C11: the session a correctly shaped handshake message persists and the
\* login callbacks it runs are determined by the payload, the login registry and
\* the listeners alone: not by the window that posted it, nor by whether show()
\* was ever called, nor by whether a popup is tracked, open or polled.
C11_SenderIndependent ==
    [][(op' = "message" /\ arg'.has /\ arg'.type = AUTH_SUCCESS /\ listeners >= 1)
        => /\ storage' = ToStorageString(JSONstringify(arg'.user))
           /\ CallArgs(calls') =
                 HandshakeCalls(callbacks.login, listeners, arg'.user, arg'.service)
           /\ \A i \in 1..Len(calls') : calls'[i].reg = "login"]_vars

\* a handshake posted by a foreign window succeeds although no popup was ever opened
C11_Witness ==
    /\ op = "message" /\ arg.has /\ arg.type = AUTH_SUCCESS /\ listeners >= 1
    /\ arg.from = "other"
    /\ closed = <<>> /\ timers = 0
    /\ storage = JsonText("ada")
    /\ calls # <<>>

----------------------------------------------------------------------------
(* C12 *)

\* C12: the authPageUrl option passed to init() determines the page show()
\* opens; the default page is opened only when no option was supplied.
C12_ConfiguredPage ==
    (op = "show" /\ authPageUrl # Undefined) => out.opened = authPageUrl

----------------------------------------------------------------------------
(* C13 *)

\* the tracked popup was closed by hand: a handshake would have dropped the handle
ClosedByHand == authPopup # NoPopup /\ closed[authPopup]

\* C13 as stated: once the tracked popup is closed by hand, fair polling
\* eventually makes the handle null.
C13_HandleBecomesNull == ClosedByHand ~> (authPopup = NoPopup)

\* C13: once the tracked popup is closed by hand, fair polling eventually makes
\* the handle stop tracking a closed window: it becomes null, unless show()
\* replaced it by a newly opened window first. The tick that finds the tracked
\* window closed cancels its own interval and nulls the handle; no tick changes
\* the session or the registries or runs a callback.
C13_ManualClose ==
    /\ ClosedByHand ~> ~ClosedByHand
    /\ [][op' = "tick"
            => /\ storage' = storage /\ callbacks' = callbacks /\ calls' = <<>>
               /\ ClosedByHand => (authPopup' = NoPopup /\ timers' = timers - 1)]_vars

\* a tick found the popup closed by hand, nulled the handle and stopped polling
C13_Witness ==
    /\ op = "tick" /\ cleared = {"poll"}
    /\ authPopup = NoPopup /\ timers = 0
    /\ closed = <<TRUE>>

----------------------------------------------------------------------------
(* C14 *)

\* no popup window is open and none is tracked
NoPopupLeft == authPopup = NoPopup /\ \A p \in DOMAIN closed : closed[p]

\* C14: once no popup is open and the handle is null, fair polling eventually
\* leaves no liveness interval active (or a popup has been opened again by
\* then), whichever path closed the popup and however often show() was called.
C14_PollsCancelled == NoPopupLeft ~> (NoPopupLeft => timers = 0)

----------------------------------------------------------------------------
(* C15 *)

\* list a is an initial segment of list b
IsPrefix(a, b) == Len(a) <= Len(b) /\ \A i \in DOMAIN a : a[i] = b[i]

\* how many entries of a registry hold the function cb
Entries(list, cb) == Cardinality({i \in DOMAIN list : list[i] = cb})

\* how many of the invocations are invocations of cb
Runs(cs, cb) == Cardinality({i \in DOMAIN cs : cs[i].cb = cb})

\* the step dispatched a login event: a handshake, or the replay of init()
LoginEvent ==
    \/ op' = "message" /\ accepts(arg') /\ listeners >= 1
    \/ op' = "init" /\ ~out'.threw /\ Truthy(storage)

\* the step dispatched a logout event
LogoutEvent == op' = "logout" /\ ~out'.threw

\* what does hold: no operation removes or reorders an entry, onLogin and
\* onLogout add at most one entry to their own registry, nothing else adds any
RegistryAppendOnly ==
    [][/\ IsPrefix(callbacks.login, callbacks'.login)
       /\ IsPrefix(callbacks.logout, callbacks'.logout)
       /\ Len(callbacks'.login) > Len(callbacks.login)
            => /\ op' = "onLogin" /\ callbacks'.logout = callbacks.logout
               /\ Len(callbacks'.login) = Len(callbacks.login) + 1
               /\ callbacks'.login[Len(callbacks'.login)] \in CbIds
       /\ Len(callbacks'.logout) > Len(callbacks.logout)
            => /\ op' = "onLogout" /\ callbacks'.login = callbacks.login
               /\ Len(callbacks'.logout) = Len(callbacks.logout) + 1
               /\ callbacks'.logout[Len(callbacks'.logout)] \in CbIds]_vars

\* what does hold: a function registered k times runs k times in each listener
\* run of a handshake, k times in a replay and k times in a logout
RunsPerListener ==
    [][\A cb \in CbIds :
        /\ LoginEvent =>
              Runs(calls', cb) = Entries(callbacks.login, cb)
                                  * (IF op' = "message" THEN listeners ELSE 1)
        /\ LogoutEvent => Runs(calls', cb) = Entries(callbacks.logout, cb)]_vars

\* C15: the registries are append-only and without deduplication: a function
\* registered k times runs k times per login event (logout event).
C15_RunsPerEvent ==
    [][/\ IsPrefix(callbacks.login, callbacks'.login)
       /\ IsPrefix(callbacks.logout, callbacks'.logout)
       /\ \A cb \in CbIds :
            /\ LoginEvent => Runs(calls', cb) = Entries(callbacks.login, cb)
            /\ LogoutEvent => Runs(calls', cb) = Entries(callbacks.logout, cb)]_vars

----------------------------------------------------------------------------
(* C16 *)

\* the functions of a sequence of onReady invocations
ReadyCbs(rc) == [i \in 1..Len(rc) |-> rc[i].cb]

\* the step is the run of the gate that finds the core
GateOpens == gate = "scheduled" /\ gate' = "done"

\* what does hold: a ready callback is never invoked before the gate called
\* init(); a gate whose init() returns invokes the queued callbacks once each
\* in registration order; after it, onReady() invokes its callback at once
GateWhenInitReturns ==
    [][/\ IsPrefix(readyCalls, readyCalls')
       /\ \A i \in DOMAIN readyCalls' : readyCalls'[i].inits >= 1
       /\ (GateOpens /\ ~out'.threw)
            => /\ ReadyCbs(readyCalls') = readyCallbacks
               /\ readyCallbacks' = <<>>
       /\ (op' = "onReady" /\ isReady)
            => Len(readyCalls') = Len(readyCalls) + 1 /\ UNCHANGED readyCallbacks
       /\ (op' = "onReady" /\ ~isReady)
            => Len(readyCallbacks') = Len(readyCallbacks) + 1 /\ UNCHANGED readyCalls
       /\ ~(GateOpens \/ op' = "onReady") => UNCHANGED <<readyCallbacks, readyCalls>>]_vars

\* C16: once the gate has found the core and called init(), every callback
\* queued before is invoked, once and in registration order, whatever session
\* value is persisted; no callback is invoked before the gate called init().
C16_GateDrains ==
    /\ gate = "done" => readyCallbacks = <<>>
    /\ \A i \in DOMAIN readyCalls : readyCalls[i].inits >= 1

----------------------------------------------------------------------------
(* C17 *)

\* C17: show() and the poll ticks never change the session or the registries
\* and never run a callback; show() returns with its popup still open, without
\* waiting for the outcome; the session changes only in the handshake handler
\* and in logout(); callbacks run only in the handshake handler, in the replay
\* of init() and in logout().
C17_ShowAndTickFrame ==
    [][/\ op' \in {"show", "tick"}
            => storage' = storage /\ callbacks' = callbacks /\ calls' = <<>>
       /\ (op' = "show" /\ authPopup' # NoPopup) => ~closed'[authPopup']
       /\ storage' # storage
            => \/ op' = "message" /\ accepts(arg') /\ listeners >= 1
               \/ op' = "logout"
       /\ calls' # <<>>
            => \/ op' = "message" /\ accepts(arg') /\ listeners >= 1
               \/ op' = "init"
               \/ op' = "logout"]_vars

\* a tick found the popup closed while a session was persisted and callbacks
\* were registered, and left both alone
C17_Witness ==
    /\ op = "tick" /\ "poll" \in cleared /\ authPopup = NoPopup
    /\ storage = JsonText("bob")
    /\ Len(callbacks.login) = 1 /\ Len(callbacks.logout) = 1
    /\ calls = <<>>

----------------------------------------------------------------------------
(* C18 *)

\* C18: from an absent or validly serialized session, whatever operations run
\* and whatever accepted messages arrive, the stored item is absent or the
\* serialization of one user record, getUser() does not throw, and
\* isLoggedIn() is true exactly when an item is stored.
C18_SessionWellFormed ==
    /\ storage = NoItem \/ \E u \in Users : storage = JsonText(u)
    /\ getUserOf(storage) # SyntaxError
    /\ isLoggedIn(storage) <=> storage # NoItem

----------------------------------------------------------------------------
(* C19 *)

\* the element is shown
Visible == display = ""

\* what does hold: while the stored item is one getUser() can read, the bound
\* element is visible exactly when isLoggedIn() equals showWhenLoggedIn, also
\* when a callback logs out or registers a callback during the dispatch
ToggleTracksReadableSession ==
    (toggle # "unbound" /\ getUserOf(storage) # SyntaxError)
        => (Visible <=> (isLoggedIn(storage) = (toggle = "whenLoggedIn")))

\* C19: once toggleOnAuth has bound the element, after the call and after every
\* handshake and logout, the element is visible exactly when isLoggedIn()
\* returns the value of showWhenLoggedIn, and hidden otherwise.
C19_ToggleTracksSession ==
    toggle # "unbound"
        => (Visible <=> /\ getUserOf(storage) # SyntaxError
                        /\ isLoggedIn(storage) = (toggle = "whenLoggedIn"))

====
